---- MODULE Spec2Model ----
(***************************************************************************)
(* A model of ggez's game driver (src/game.rs): Game::new, which resolves  *)
(* the configuration, builds the Context and loads the first GameState,    *)
(* and Game::run, the main loop that ticks the timer, drains the SDL event *)
(* queue into GameState callbacks, and calls update and draw until a Quit  *)
(* event has been seen; reload_state, replace_state_with and               *)
(* replace_state, which change the Game's state between runs; and the      *)
(* TextBatch and draw queue that examples/textbatch.rs uses.               *)
(***************************************************************************)
EXTENDS Integers, Sequences, FiniteSets, TLC

\* ------------------------------------------------------------------ bounds
\* Platform events that arrive over the life of the program.
MaxEvents == 2
\* Iterations of the main loop in one call of run.
MaxTicks == 2

\* ------------------------------------------------------------------ values
\* conf::Conf values.
Confs == {"confA", "confB", "confC"}
\* GameError values a user callback (load, update, draw) may return.
Errors == {"E1", "E2"}

NoConf == "no_conf"
NoState == [made_by |-> "none", conf |-> NoConf]
NoContext == [built_from |-> NoConf]
NoGame == [conf |-> NoConf, state |-> NoState, context |-> NoContext]

\* GameResult<T>: Ok(value) or Err(error).
Ok(v) == [ok |-> TRUE, err |-> "none", val |-> v]
Err(e) == [ok |-> FALSE, err |-> e, val |-> "none"]
NoRet == [ok |-> FALSE, err |-> "not_returned", val |-> "none"]

\* sdl2::event::Event, reduced to what run's match looks at: the variant, the
\* keycode of a key event (an Option: "None" or Some key) and the id of a
\* window event.
KeyCodes == {"Escape", "A", "None"}
Ev(k, c, r, w) == [kind |-> k, keycode |-> c, repeat |-> r, win_event_id |-> w]
KeyDownEvents == {Ev("KeyDown", c, FALSE, "None") : c \in KeyCodes}
                   \cup {Ev("KeyDown", "A", TRUE, "None")}
KeyUpEvents == {Ev("KeyUp", "A", FALSE, "None")}
PlainKinds == {"Quit", "MouseButtonDown", "MouseButtonUp", "MouseMotion", "MouseWheel",
               "TextInput", "ControllerButtonDown", "ControllerButtonUp",
               "ControllerAxisMotion"}
WindowEvents == {Ev("Window", "None", FALSE, w) : w \in {"FocusGained", "FocusLost", "Resized"}}
Events == KeyDownEvents \cup KeyUpEvents \cup WindowEvents
            \cup {Ev(k, "None", FALSE, "None") : k \in PlainKinds}
QuitEvent == Ev("Quit", "None", FALSE, "None")
NoEvent == Ev("none", "None", FALSE, "None")

VARIABLES
  pc,             \* where the program is: before new, between calls, or inside run
  conf,           \* Game.conf
  state,          \* Game.state
  context,        \* Game.context
  default_config, \* the argument of Game::new
  conf_file,      \* what the filesystem held for conf.toml when new ran
  new_trace,      \* the calls Game::new made, in order
  new_ret,        \* what Game::new returned
  pending,        \* the SDL event queue
  arrived,        \* how many platform events have arrived
  done,           \* run's local `done`
  it,             \* the iteration of run's loop (0 before the first)
  polled,         \* the events poll_iter has yielded in this call of run, each
                  \* with its iteration and the length of the log when it was polled
  log,            \* the calls this call of run has made, in order
  ret,            \* what the last call of run returned
  last_op,        \* the last call of reload_state, replace_state_with or
                  \* replace_state: the Game before it, the calls it made, the
                  \* state it was given or obtained, and what it returned
  batch,          \* a TextBatch the caller holds
  added,          \* what the caller has given to new and add_fragment, in order
  meas,           \* the measurements made since the last mutation of the batch
  draw_queue,     \* the entries queued for the next draw_queued
  flushes,        \* the number of calls of draw_queued so far
  last_flush      \* the last call of draw_queued: the queue it found, the draw
                  \* calls it submitted and what it returned

vars == <<pc, conf, state, context, default_config, conf_file, new_trace, new_ret,
          pending, arrived, done, it, polled, log, ret, last_op,
          batch, added, meas, draw_queue, flushes, last_flush>>

game_vars == <<conf, state, context>>
new_vars == <<default_config, conf_file, new_trace, new_ret>>
run_vars == <<done, it, polled, log, ret>>
ops_vars == <<last_op>>
batch_vars == <<batch, added, meas>>
queue_vars == <<draw_queue, flushes, last_flush>>
text_vars == <<batch_vars, queue_vars>>
loop_vars == <<pc, game_vars, new_vars, pending, arrived, run_vars, ops_vars>>

\* ---------------------------------------------------------------- Game::new
\* What the filesystem holds for "conf.toml": whether it is a file, whether it
\* can be opened, and what parsing it gives (a Conf, or "malformed").
AbsentFile == [is_file |-> FALSE, open_ok |-> FALSE, toml |-> "none"]
ConfFiles ==
  {AbsentFile,
   [is_file |-> TRUE, open_ok |-> FALSE, toml |-> "none"],
   [is_file |-> TRUE, open_ok |-> TRUE, toml |-> "malformed"]}
  \cup {[is_file |-> TRUE, open_ok |-> TRUE, toml |-> c] : c \in Confs}

get_default_config(f) ==
  IF f.is_file
  THEN IF ~f.open_ok THEN Err("IOError")
       ELSE IF f.toml = "malformed" THEN Err("ConfigError(parse)")
       ELSE Ok(f.toml)
  ELSE Err("ConfigError(Config file not found)")

\* Result::unwrap_or
unwrap_or(r, d) == IF r.ok THEN r.val ELSE d

resolve_config_builtin(f, default_cfg) == unwrap_or(get_default_config(f), "confA")

\* let config = get_default_config(&mut fs).unwrap_or(default_config);
resolve_config(f, default_cfg) == unwrap_or(get_default_config(f), default_cfg)

\* S::load(ctx, conf): user code; it fails with an error or gives a state, which
\* here remembers the config it was loaded with.
load(ctx, c, load_err) ==
  IF load_err = "none" THEN Ok([made_by |-> "load", conf |-> c]) ELSE Err(load_err)

Call(op, c, ok) == [op |-> op, conf |-> c, ok |-> ok]

new_result_load_first(default_cfg, f, sdl_ok, fs_ok, ctx_ok, load_err) ==
  IF ~sdl_ok THEN [ret |-> Err("SdlInitError"), trace |-> <<>>, game |-> NoGame]
  ELSE IF ~fs_ok THEN [ret |-> Err("FilesystemError"), trace |-> <<>>, game |-> NoGame]
  ELSE
    LET config == resolve_config(f, default_cfg)
        ctx == [built_from |-> config]
        init_state == load(ctx, config, load_err)
    IN IF ~init_state.ok
       THEN [ret |-> Err(init_state.err), game |-> NoGame,
             trace |-> <<Call("load", config, FALSE)>>]
       ELSE IF ~ctx_ok
       THEN [ret |-> Err("ContextError"), game |-> NoGame,
             trace |-> <<Call("load", config, TRUE), Call("from_conf", config, FALSE)>>]
       ELSE [ret |-> Ok("Game"),
             trace |-> <<Call("load", config, TRUE), Call("from_conf", config, TRUE)>>,
             game |-> [conf |-> config, state |-> init_state.val, context |-> ctx]]

\* The body of Game::new as a function of its argument and of what the platform,
\* the filesystem and the user's load answer.
new_result(default_cfg, f, sdl_ok, fs_ok, ctx_ok, load_err) ==
  IF ~sdl_ok THEN [ret |-> Err("SdlInitError"), trace |-> <<>>, game |-> NoGame]
  ELSE IF ~fs_ok THEN [ret |-> Err("FilesystemError"), trace |-> <<>>, game |-> NoGame]
  ELSE
    LET config == resolve_config(f, default_cfg)
        ctx == [built_from |-> config]
    IN IF ~ctx_ok
       THEN [ret |-> Err("ContextError"), game |-> NoGame,
             trace |-> <<Call("from_conf", config, FALSE)>>]
       ELSE
         LET init_state == load(ctx, config, load_err)
         IN IF ~init_state.ok
            THEN [ret |-> Err(init_state.err), game |-> NoGame,
                  trace |-> <<Call("from_conf", config, TRUE),
                              Call("load", config, FALSE)>>]
            ELSE [ret |-> Ok("Game"),
                  trace |-> <<Call("from_conf", config, TRUE),
                              Call("load", config, TRUE)>>,
                  game |-> [conf |-> config, state |-> init_state.val, context |-> ctx]]

new ==
  /\ pc = "start"
  /\ \E dc \in Confs, f \in ConfFiles, sdl_ok \in BOOLEAN, fs_ok \in BOOLEAN,
        ctx_ok \in BOOLEAN, load_err \in {"none"} \cup Errors :
       LET r == new_result(dc, f, sdl_ok, fs_ok, ctx_ok, load_err)
       IN /\ default_config' = dc
          /\ conf_file' = f
          /\ new_trace' = r.trace
          /\ new_ret' = r.ret
          /\ conf' = r.game.conf
          /\ state' = r.game.state
          /\ context' = r.game.context
          /\ pc' = IF r.ret.ok THEN "idle" ELSE "new_failed"
  /\ UNCHANGED <<pending, arrived, run_vars, ops_vars, text_vars>>

\* ---------------------------------------------------------------- Game::run
\* One entry of the log of a call of run: the operation, the iteration it was
\* made in, the index in `polled` of the event it was made for (0: none), the
\* event handed over, the argument of focus(), and how the call ended.
Entry(op, i, n, ev, gained, res) ==
  [op |-> op, it |-> i, n |-> n, ev |-> ev, gained |-> gained, res |-> res]

Act(act, cb, gained) == [act |-> act, cb |-> cb, gained |-> gained]

\* As match_event, with no arm for Some(Escape): the key goes to the callback.
match_event_forward_escape(event) ==
  IF event.kind = "Quit" THEN Act("set_done", "none", FALSE)
  ELSE IF event.kind = "KeyDown" THEN Act("call", "key_down_event", FALSE)
  ELSE IF event.kind = "KeyUp" THEN Act("call", "key_up_event", FALSE)
  ELSE IF event.kind = "MouseButtonDown" THEN Act("call", "mouse_button_down_event", FALSE)
  ELSE IF event.kind = "MouseButtonUp" THEN Act("call", "mouse_button_up_event", FALSE)
  ELSE IF event.kind = "MouseMotion" THEN Act("call", "mouse_motion_event", FALSE)
  ELSE IF event.kind = "MouseWheel" THEN Act("call", "mouse_wheel_event", FALSE)
  ELSE IF event.kind = "Window" /\ event.win_event_id = "FocusGained"
  THEN Act("call", "focus", TRUE)
  ELSE IF event.kind = "Window" /\ event.win_event_id = "FocusLost"
  THEN Act("call", "focus", FALSE)
  ELSE Act("drop", "none", FALSE)

\* As match_event, with the key-down arm written `Some(key)`: a key-down that
\* carries no keycode falls through to the default arm.
match_event_some_only(event) ==
  IF event.kind = "Quit" THEN Act("set_done", "none", FALSE)
  ELSE IF event.kind = "KeyDown" /\ event.keycode /= "None"
  THEN IF event.keycode = "Escape"
       THEN Act("ctx_quit", "none", FALSE)
       ELSE Act("call", "key_down_event", FALSE)
  ELSE IF event.kind = "KeyUp" THEN Act("call", "key_up_event", FALSE)
  ELSE IF event.kind = "MouseButtonDown" THEN Act("call", "mouse_button_down_event", FALSE)
  ELSE IF event.kind = "MouseButtonUp" THEN Act("call", "mouse_button_up_event", FALSE)
  ELSE IF event.kind = "MouseMotion" THEN Act("call", "mouse_motion_event", FALSE)
  ELSE IF event.kind = "MouseWheel" THEN Act("call", "mouse_wheel_event", FALSE)
  ELSE IF event.kind = "Window" /\ event.win_event_id = "FocusGained"
  THEN Act("call", "focus", TRUE)
  ELSE IF event.kind = "Window" /\ event.win_event_id = "FocusLost"
  THEN Act("call", "focus", FALSE)
  ELSE Act("drop", "none", FALSE)

\* As match_event, with every window event taken for a change of focus.
match_event_window_any(event) ==
  IF event.kind = "Quit" THEN Act("set_done", "none", FALSE)
  ELSE IF event.kind = "KeyDown"
  THEN IF event.keycode = "Escape"
       THEN Act("ctx_quit", "none", FALSE)
       ELSE Act("call", "key_down_event", FALSE)
  ELSE IF event.kind = "KeyUp" THEN Act("call", "key_up_event", FALSE)
  ELSE IF event.kind = "MouseButtonDown" THEN Act("call", "mouse_button_down_event", FALSE)
  ELSE IF event.kind = "MouseButtonUp" THEN Act("call", "mouse_button_up_event", FALSE)
  ELSE IF event.kind = "MouseMotion" THEN Act("call", "mouse_motion_event", FALSE)
  ELSE IF event.kind = "MouseWheel" THEN Act("call", "mouse_wheel_event", FALSE)
  ELSE IF event.kind = "Window"
  THEN Act("call", "focus", event.win_event_id = "FocusGained")
  ELSE Act("drop", "none", FALSE)

\* The match of run's event loop: what is done with one polled event.
match_event(event) ==
  IF event.kind = "Quit" THEN Act("set_done", "none", FALSE)
  ELSE IF event.kind = "KeyDown"
  THEN IF event.keycode = "Escape"
       THEN Act("ctx_quit", "none", FALSE)
       ELSE Act("call", "key_down_event", FALSE)
  ELSE IF event.kind = "KeyUp" THEN Act("call", "key_up_event", FALSE)
  ELSE IF event.kind = "MouseButtonDown" THEN Act("call", "mouse_button_down_event", FALSE)
  ELSE IF event.kind = "MouseButtonUp" THEN Act("call", "mouse_button_up_event", FALSE)
  ELSE IF event.kind = "MouseMotion" THEN Act("call", "mouse_motion_event", FALSE)
  ELSE IF event.kind = "MouseWheel" THEN Act("call", "mouse_wheel_event", FALSE)
  ELSE IF event.kind = "Window" /\ event.win_event_id = "FocusGained"
  THEN Act("call", "focus", TRUE)
  ELSE IF event.kind = "Window" /\ event.win_event_id = "FocusLost"
  THEN Act("call", "focus", FALSE)
  ELSE Act("drop", "none", FALSE)

\* Context::quit(): asks the loop to end by pushing a Quit event on the SDL
\* queue; the push can fail.
ctx_quit(queue, push_ok) ==
  IF push_ok THEN [ret |-> Ok("unit"), queue |-> Append(queue, QuitEvent)]
  ELSE [ret |-> Err("EventPushError"), queue |-> queue]

\* As after, with draw called at the top of the iteration, before the events
\* are drained and update is called.
after_draw_first(step) ==
  CASE step = "tick" -> "draw"
    [] step = "draw" -> "drain"
    [] step = "update" -> "loop"

\* The order of the steps of one iteration of `while !done`: the tick, the
\* drain of the event queue (which ends with update), draw, and the loop test.
after(step) ==
  CASE step = "tick" -> "drain"
    [] step = "update" -> "draw"
    [] step = "draw" -> "loop"

\* The platform queues an input event (at any time once SDL is initialised).
platform_event ==
  /\ pc \notin {"start", "new_failed"}
  /\ arrived < MaxEvents
  /\ \E e \in Events : pending' = Append(pending, e)
  /\ arrived' = arrived + 1
  /\ UNCHANGED <<pc, game_vars, new_vars, run_vars, ops_vars, text_vars>>

\* As run_enter, with `done` kept from the previous call of run.
run_enter_keeps_done ==
  /\ pc = "idle"
  /\ \E pump_ok \in BOOLEAN :
       /\ ret' = IF pump_ok THEN NoRet ELSE Err("EventPumpError")
       /\ pc' = IF pump_ok THEN "loop" ELSE "idle"
  /\ it' = 0
  /\ polled' = <<>>
  /\ log' = <<>>
  /\ UNCHANGED <<game_vars, new_vars, ops_vars, text_vars, pending, arrived, done>>

\* As run_enter, with the timer ticked before the event pump is acquired.
run_enter_ticks_first ==
  /\ pc = "idle"
  /\ \E pump_ok \in BOOLEAN :
       /\ ret' = IF pump_ok THEN NoRet ELSE Err("EventPumpError")
       /\ pc' = IF pump_ok THEN "loop" ELSE "idle"
       /\ log' = IF pump_ok THEN <<>> ELSE <<Entry("tick", 1, 0, NoEvent, FALSE, "ok")>>
  /\ done' = FALSE
  /\ it' = 0
  /\ polled' = <<>>
  /\ UNCHANGED <<game_vars, new_vars, ops_vars, text_vars, pending, arrived>>

\* run is called: the event pump is acquired (or not) and `done` is cleared.
run_enter ==
  /\ pc = "idle"
  /\ \E pump_ok \in BOOLEAN :
       /\ ret' = IF pump_ok THEN NoRet ELSE Err("EventPumpError")
       /\ pc' = IF pump_ok THEN "loop" ELSE "idle"
  /\ done' = FALSE
  /\ it' = 0
  /\ polled' = <<>>
  /\ log' = <<>>
  /\ UNCHANGED <<game_vars, new_vars, ops_vars, text_vars, pending, arrived>>

\* As tick, with the timer ticked a second time in the same iteration.
tick_twice ==
  /\ pc = "loop"
  /\ ~done
  /\ it < MaxTicks
  /\ it' = it + 1
  /\ log' = log \o <<Entry("tick", it + 1, 0, NoEvent, FALSE, "ok"),
                     Entry("tick", it + 1, 0, NoEvent, FALSE, "ok")>>
  /\ pc' = after("tick")
  /\ UNCHANGED <<game_vars, new_vars, ops_vars, text_vars, pending, arrived, done, polled, ret>>

\* As tick, in a loop that does not test `done`.
tick_ignores_done ==
  /\ pc = "loop"
  /\ it < MaxTicks
  /\ it' = it + 1
  /\ log' = Append(log, Entry("tick", it + 1, 0, NoEvent, FALSE, "ok"))
  /\ pc' = after("tick")
  /\ UNCHANGED <<game_vars, new_vars, ops_vars, text_vars, pending, arrived, done, polled, ret>>

\* while !done { ctx.timer_context.tick(); ...
tick ==
  /\ pc = "loop"
  /\ ~done
  /\ it < MaxTicks
  /\ it' = it + 1
  /\ log' = Append(log, Entry("tick", it + 1, 0, NoEvent, FALSE, "ok"))
  /\ pc' = after("tick")
  /\ UNCHANGED <<game_vars, new_vars, ops_vars, text_vars, pending, arrived, done, polled, ret>>

\* One turn of `for event in event_pump.poll_iter()`: the next event is taken
\* from the queue and matched.
poll ==
  /\ pc = "drain"
  /\ pending /= <<>>
  /\ LET event == Head(pending)
         m == match_event(event)
         n == Len(polled) + 1
     IN /\ polled' = Append(polled, [ev |-> event, it |-> it, at |-> Len(log)])
        /\ \/ /\ m.act = "set_done"
              /\ done' = TRUE
              /\ pending' = Tail(pending)
              /\ UNCHANGED <<pc, log, ret>>
           \/ /\ m.act = "ctx_quit"
              /\ \E push_ok \in BOOLEAN :
                   LET q == ctx_quit(Tail(pending), push_ok)
                   IN /\ pending' = q.queue
                      /\ log' = Append(log, Entry("ctx_quit", it, n, NoEvent, FALSE,
                                                  IF q.ret.ok THEN "ok" ELSE q.ret.err))
                      /\ ret' = IF q.ret.ok THEN ret ELSE Err(q.ret.err)
                      /\ pc' = IF q.ret.ok THEN pc ELSE "idle"
              /\ UNCHANGED done
           \/ /\ m.act = "call"
              /\ log' = Append(log, Entry(m.cb, it, n, event, m.gained, "ok"))
              /\ pending' = Tail(pending)
              /\ UNCHANGED <<pc, done, ret>>
           \/ /\ m.act = "drop"
              /\ pending' = Tail(pending)
              /\ UNCHANGED <<pc, done, log, ret>>
  /\ UNCHANGED <<game_vars, new_vars, ops_vars, text_vars, arrived, it>>

\* As update, in a loop whose drain is left as soon as `done` is set: the
\* events behind a Quit event stay in the queue.
update_once_done ==
  /\ pc = "drain"
  /\ pending = <<>> \/ done
  /\ \E res \in {"ok"} \cup Errors :
       /\ log' = log \o <<Entry("get_delta", it, 0, NoEvent, FALSE, "ok"),
                          Entry("update", it, 0, NoEvent, FALSE, res)>>
       /\ ret' = IF res = "ok" THEN ret ELSE Err(res)
       /\ pc' = IF res = "ok" THEN after("update") ELSE "idle"
  /\ UNCHANGED <<game_vars, new_vars, ops_vars, text_vars, pending, arrived, done, it, polled>>

\* As update, without the try!: the result of update is dropped.
update_ignores_error ==
  /\ pc = "drain"
  /\ pending = <<>>
  /\ \E res \in {"ok"} \cup Errors :
       log' = log \o <<Entry("get_delta", it, 0, NoEvent, FALSE, "ok"),
                       Entry("update", it, 0, NoEvent, FALSE, res)>>
  /\ pc' = after("update")
  /\ UNCHANGED <<game_vars, new_vars, ops_vars, text_vars, pending, arrived, done, it, polled, ret>>

\* poll_iter yields nothing more (the queue is empty), then
\* let dt = timer::get_delta(ctx); try!(self.state.update(ctx, dt));
update ==
  /\ pc = "drain"
  /\ pending = <<>>
  /\ \E res \in {"ok"} \cup Errors :
       /\ log' = log \o <<Entry("get_delta", it, 0, NoEvent, FALSE, "ok"),
                          Entry("update", it, 0, NoEvent, FALSE, res)>>
       /\ ret' = IF res = "ok" THEN ret ELSE Err(res)
       /\ pc' = IF res = "ok" THEN after("update") ELSE "idle"
  /\ UNCHANGED <<game_vars, new_vars, ops_vars, text_vars, pending, arrived, done, it, polled>>

\* try!(self.state.draw(ctx));
draw ==
  /\ pc = "draw"
  /\ \E res \in {"ok"} \cup Errors :
       /\ log' = Append(log, Entry("draw", it, 0, NoEvent, FALSE, res))
       /\ ret' = IF res = "ok" THEN ret ELSE Err(res)
       /\ pc' = IF res = "ok" THEN after("draw") ELSE "idle"
  /\ UNCHANGED <<game_vars, new_vars, ops_vars, text_vars, pending, arrived, done, it, polled>>

\* As quit, without the call of the quit callback.
quit_without_callback ==
  /\ pc = "loop"
  /\ done
  /\ ret' = Ok("unit")
  /\ pc' = "idle"
  /\ UNCHANGED <<game_vars, new_vars, ops_vars, text_vars, pending, arrived, done, it, polled, log>>

\* As quit, leaving the loop whether or not `done` is set.
quit_any ==
  /\ pc = "loop"
  /\ log' = Append(log, Entry("quit", it, 0, NoEvent, FALSE, "ok"))
  /\ ret' = Ok("unit")
  /\ pc' = "idle"
  /\ UNCHANGED <<game_vars, new_vars, ops_vars, text_vars, pending, arrived, done, it, polled>>

\* The loop is left: self.state.quit(); Ok(())
quit ==
  /\ pc = "loop"
  /\ done
  /\ log' = Append(log, Entry("quit", it, 0, NoEvent, FALSE, "ok"))
  /\ ret' = Ok("unit")
  /\ pc' = "idle"
  /\ UNCHANGED <<game_vars, new_vars, ops_vars, text_vars, pending, arrived, done, it, polled>>

\* ------------------------------------- reload_state, replace_state_with, replace_state
\* The Game as a value: its three fields.
Game(c, st, ctx) == [conf |-> c, state |-> st, context |-> ctx]

\* A call a Game method makes to user code that builds a state: S::load or the
\* factory, with the Context and the config handed over.
Made(fn, ctx, c) == [fn |-> fn, ctx |-> ctx, conf |-> c]

NoOp == [op |-> "none", prev |-> NoGame, calls |-> <<>>, made |-> NoState, ret |-> NoRet]

\* The factory handed to replace_state_with: user code; it fails with an error
\* or gives a state, which here remembers the config it was built with.
factory(ctx, c, f_err) ==
  IF f_err = "none" THEN Ok([made_by |-> "factory", conf |-> c]) ELSE Err(f_err)

\* The states a caller hands to replace_state.
GivenStates == {[made_by |-> who, conf |-> NoConf] : who \in {"caller1", "caller2"}}

\* As reload_state_result, with load given a fresh built-in Conf.
reload_state_result_builtin_conf(game, load_err) ==
  LET newstate == load(game.context, "confA", load_err)
      calls == <<Made("load", game.context, "confA")>>
  IN IF ~newstate.ok
     THEN [ret |-> Err(newstate.err), game |-> game, calls |-> calls, made |-> NoState]
     ELSE [ret |-> Ok("unit"), game |-> [game EXCEPT !.state = newstate.val],
           calls |-> calls, made |-> newstate.val]

\* As reload_state_result, with the old state given up before load is called.
reload_state_result_drops_old(game, load_err) ==
  LET newstate == load(game.context, game.conf, load_err)
      calls == <<Made("load", game.context, game.conf)>>
  IN IF ~newstate.ok
     THEN [ret |-> Err(newstate.err), game |-> [game EXCEPT !.state = NoState],
           calls |-> calls, made |-> NoState]
     ELSE [ret |-> Ok("unit"), game |-> [game EXCEPT !.state = newstate.val],
           calls |-> calls, made |-> newstate.val]

\* The body of reload_state on a Game, given what the user's load answers.
reload_state_result(game, load_err) ==
  LET newstate == load(game.context, game.conf, load_err)
      calls == <<Made("load", game.context, game.conf)>>
  IN IF ~newstate.ok
     THEN [ret |-> Err(newstate.err), game |-> game, calls |-> calls, made |-> NoState]
     ELSE [ret |-> Ok("unit"), game |-> [game EXCEPT !.state = newstate.val],
           calls |-> calls, made |-> newstate.val]

\* As replace_state_with_result, written as reload_state: S::load is called
\* first and the factory after it.
replace_state_with_result_loads(game, f_err) ==
  LET newstate == factory(game.context, game.conf, f_err)
      calls == <<Made("load", game.context, game.conf),
                 Made("factory", game.context, game.conf)>>
  IN IF ~newstate.ok
     THEN [ret |-> Err(newstate.err), game |-> game, calls |-> calls, made |-> NoState]
     ELSE [ret |-> Ok("unit"), game |-> [game EXCEPT !.state = newstate.val],
           calls |-> calls, made |-> newstate.val]

\* As replace_state_with_result, with the Game's config put back to the
\* built-in Conf when the factory fails.
replace_state_with_result_resets_conf(game, f_err) ==
  LET newstate == factory(game.context, game.conf, f_err)
      calls == <<Made("factory", game.context, game.conf)>>
  IN IF ~newstate.ok
     THEN [ret |-> Err(newstate.err), game |-> [game EXCEPT !.conf = "confA"],
           calls |-> calls, made |-> NoState]
     ELSE [ret |-> Ok("unit"), game |-> [game EXCEPT !.state = newstate.val],
           calls |-> calls, made |-> newstate.val]

\* The body of replace_state_with on a Game, given what the factory answers.
replace_state_with_result(game, f_err) ==
  LET newstate == factory(game.context, game.conf, f_err)
      calls == <<Made("factory", game.context, game.conf)>>
  IN IF ~newstate.ok
     THEN [ret |-> Err(newstate.err), game |-> game, calls |-> calls, made |-> NoState]
     ELSE [ret |-> Ok("unit"), game |-> [game EXCEPT !.state = newstate.val],
           calls |-> calls, made |-> newstate.val]

\* As replace_state_result, with the given state dropped.
replace_state_result_keeps_old(game, st) ==
  [ret |-> Ok("unit"), game |-> game, calls |-> <<>>, made |-> st]

\* The body of replace_state on a Game: self.state = state;
replace_state_result(game, st) ==
  [ret |-> Ok("unit"), game |-> [game EXCEPT !.state = st], calls |-> <<>>, made |-> st]

\* A call of one of the three methods ends: the Game's fields are what the
\* method left and the call is recorded.
Applied(op, r) ==
  /\ conf' = r.game.conf
  /\ state' = r.game.state
  /\ context' = r.game.context
  /\ last_op' = [op |-> op, prev |-> Game(conf, state, context), calls |-> r.calls,
                 made |-> r.made, ret |-> r.ret]
  /\ UNCHANGED <<pc, new_vars, pending, arrived, run_vars, text_vars>>

reload_state ==
  /\ pc = "idle"
  /\ \E load_err \in {"none"} \cup Errors :
       Applied("reload_state", reload_state_result(Game(conf, state, context), load_err))

replace_state_with ==
  /\ pc = "idle"
  /\ \E f_err \in {"none"} \cup Errors :
       Applied("replace_state_with",
               replace_state_with_result(Game(conf, state, context), f_err))

replace_state ==
  /\ pc = "idle"
  /\ \E st \in GivenStates :
       Applied("replace_state", replace_state_result(Game(conf, state, context), st))

\* The platform queues a Quit event (the window is closed).
platform_quit ==
  /\ pc \notin {"start", "new_failed"}
  /\ arrived < MaxEvents
  /\ pending' = Append(pending, QuitEvent)
  /\ arrived' = arrived + 1
  /\ UNCHANGED <<pc, game_vars, new_vars, run_vars, ops_vars, text_vars>>

\* ------------------------------------------------------------ TextFragment, TextBatch
\* The most fragments a batch is given.
MaxFragments == 2

\* An optional field that is not set.
None == "None"
\* A scale that is not set (scales are positive).
NoScale == 0
\* f32::INFINITY as a width: wider than any text of the bounds above.
Infinity == 1000

\* The strings the caller uses, and the characters of each.
Texts == {"Hi", " ", "W"}
chars(text) ==
  CASE text = "Hi" -> <<"H", "i">>
    [] text = " " -> <<" ">>
    [] text = "W" -> <<"W">>

\* TextFragment { text, color, font_id, scale }
TextFragment(text, color, font_id, scale) ==
  [text |-> text, color |-> color, font_id |-> font_id, scale |-> scale]
\* TextFragment::new(text): all style fields unset.
TextFragment_new(text) == TextFragment(text, None, None, NoScale)

\* The fragments the caller builds: a coloured one and one with its own font
\* and scale.
MagentaFragment == TextFragment("W", "magenta", None, NoScale)
FancyFragment == TextFragment("Hi", None, "fancy", 2)
NoFragment == TextFragment(None, None, None, NoScale)
\* An argument of TextBatch::new and add_fragment: a raw string or a fragment.
Str(text) == [type |-> "&str", str |-> text, fragment |-> NoFragment]
Frag(f) == [type |-> "TextFragment", str |-> None, fragment |-> f]
\* What the caller hands to TextBatch::new and add_fragment.
FragmentInputs == {Str("Hi"), Str(" "), Frag(MagentaFragment), Frag(FancyFragment)}
\* What the caller stores through fragments_mut()[i].
Replacements == {TextFragment("W", "random", None, NoScale), TextFragment(" ", None, None, 2)}

\* As Into, with the style of a fragment lost on the way in.
Into_unstyled(x) ==
  IF x.type = "&str" THEN TextFragment_new(x.str) ELSE TextFragment_new(x.fragment.text)

\* The conversion add_fragment and new apply to their argument: a raw string is
\* wrapped as an unstyled fragment, a fragment is taken as it is.
Into(x) == IF x.type = "&str" THEN TextFragment_new(x.str) ELSE x.fragment

Fonts == {"default", "fancy"}
Scales == {1, 2}
\* The bounds set_bounds is given: a maximal width and an alignment.
Bounds(w, align) == [w |-> w, align |-> align]
BoundsGiven == {Bounds(3, "Left"), Bounds(3, "Right"), Bounds(Infinity, "Center")}
NoCache == [w |-> -1, h |-> -1]
NoBatch == [fragments |-> <<>>, font_id |-> None, scale |-> NoScale,
            bounds |-> Bounds(0, None), layout_cache |-> NoCache]

\* A new batch: default font and scale, no bounds, nothing laid out.
EmptyBatch == [fragments |-> <<>>, font_id |-> "default", scale |-> 1,
               bounds |-> Bounds(Infinity, "Left"), layout_cache |-> NoCache]

Max(a, b) == IF a >= b THEN a ELSE b

\* The advance of one character of a font at scale 1.
advance(font_id) == IF font_id = "fancy" THEN 2 ELSE 1

\* The glyphs of a fragment in a batch: the fragment's font and scale where
\* set, else the batch's.
glyphs(f, b) ==
  LET font_id == IF f.font_id = None THEN b.font_id ELSE f.font_id
      scale == IF f.scale = NoScale THEN b.scale ELSE f.scale
      cs == chars(f.text)
  IN [k \in 1..Len(cs) |->
        [adv |-> advance(font_id) * scale, h |-> scale, space |-> cs[k] = " "]]

RECURSIVE all_glyphs(_, _)
all_glyphs(fs, b) ==
  IF fs = <<>> THEN <<>> ELSE glyphs(Head(fs), b) \o all_glyphs(Tail(fs), b)

\* The pen before the first glyph: x the width of the line so far, word the
\* width of what follows the last whitespace of the line, spaced whether the
\* line has a whitespace, line_h and word_h the heights of the line up to that
\* whitespace and after it, w and h the extent of the lines completed.
Pen0 == [x |-> 0, word |-> 0, spaced |-> FALSE, line_h |-> 0, word_h |-> 0,
         w |-> 0, h |-> 0]

\* The pen advanced by one glyph: when the glyph does not fit in max_w the line
\* is broken at the nearest whitespace before it, or right here when the line
\* has none.
pen_advance(p, g, max_w) ==
  LET broken ==
        IF p.x + g.adv > max_w /\ p.x > 0
        THEN IF p.spaced
             THEN [p EXCEPT !.w = Max(p.w, p.x - p.word), !.h = p.h + p.line_h,
                            !.x = p.word, !.spaced = FALSE, !.line_h = 0]
             ELSE [p EXCEPT !.w = Max(p.w, p.x), !.h = p.h + Max(p.line_h, p.word_h),
                            !.x = 0, !.word = 0, !.line_h = 0, !.word_h = 0]
        ELSE p
  IN IF g.space
     THEN [broken EXCEPT !.x = broken.x + g.adv, !.word = 0, !.spaced = TRUE,
                         !.line_h = Max(Max(broken.line_h, broken.word_h), g.h),
                         !.word_h = 0]
     ELSE [broken EXCEPT !.x = broken.x + g.adv, !.word = broken.word + g.adv,
                         !.word_h = Max(broken.word_h, g.h)]

RECURSIVE pen_run(_, _, _)
pen_run(p, gs, max_w) ==
  IF gs = <<>> THEN p ELSE pen_run(pen_advance(p, Head(gs), max_w), Tail(gs), max_w)

\* The layout of a batch: the extent of its fragments, in order, wrapped in its
\* bounds.
layout(b) ==
  LET p == pen_run(Pen0, all_glyphs(b.fragments, b), b.bounds.w)
  IN [w |-> Max(p.w, p.x), h |-> p.h + Max(p.line_h, p.word_h)]

\* What was given to new or add_fragment, as the caller remembers it, and
\* whether the caller has replaced the fragment since.
Given(x, by) == [given |-> x, by |-> by, replaced |-> FALSE]

\* The batch after a mutation: the layout cache is invalid.
Mutated(b) ==
  /\ batch' = [b EXCEPT !.layout_cache = NoCache]
  /\ meas' = <<>>
  /\ UNCHANGED <<loop_vars, queue_vars>>

\* TextBatch::new(initial)
TextBatch_new ==
  /\ batch = NoBatch
  /\ \E x \in FragmentInputs :
       /\ batch' = [EmptyBatch EXCEPT !.fragments = <<Into(x)>>]
       /\ added' = <<Given(x, "new")>>
  /\ UNCHANGED <<meas, loop_vars, queue_vars>>

\* TextBatch::new_empty()
TextBatch_new_empty ==
  /\ batch = NoBatch
  /\ batch' = EmptyBatch
  /\ UNCHANGED <<added, meas, loop_vars, queue_vars>>

\* As add_fragment, with the new fragment put in front of the others.
add_fragment_in_front ==
  /\ batch /= NoBatch
  /\ Len(batch.fragments) < MaxFragments
  /\ \E x \in FragmentInputs :
       /\ Mutated([batch EXCEPT !.fragments = <<Into(x)>> \o batch.fragments])
       /\ added' = Append(added, Given(x, "add_fragment"))

\* add_fragment(fragment_or_text): appends and invalidates the layout.
add_fragment ==
  /\ batch /= NoBatch
  /\ Len(batch.fragments) < MaxFragments
  /\ \E x \in FragmentInputs :
       /\ Mutated([batch EXCEPT !.fragments = Append(batch.fragments, Into(x))])
       /\ added' = Append(added, Given(x, "add_fragment"))

\* fragments_mut()[i] = f: the caller replaces a fragment in place; handing out
\* the mutable view invalidates the layout.
fragments_mut ==
  /\ batch /= NoBatch
  /\ \E i \in DOMAIN batch.fragments, f \in Replacements :
       /\ Mutated([batch EXCEPT !.fragments[i] = f])
       /\ added' = [added EXCEPT ![i].replaced = TRUE]

set_bounds ==
  /\ batch /= NoBatch
  /\ \E bounds \in BoundsGiven : Mutated([batch EXCEPT !.bounds = bounds])
  /\ UNCHANGED added

set_font ==
  /\ batch /= NoBatch
  /\ \E font_id \in Fonts, scale \in Scales :
       Mutated([batch EXCEPT !.font_id = font_id, !.scale = scale])
  /\ UNCHANGED added

\* As set_scale, with the layout cache left as it is.
set_scale_keeps_cache ==
  /\ batch /= NoBatch
  /\ \E scale \in Scales : batch' = [batch EXCEPT !.scale = scale]
  /\ meas' = <<>>
  /\ UNCHANGED <<added, loop_vars, queue_vars>>

set_scale ==
  /\ batch /= NoBatch
  /\ \E scale \in Scales : Mutated([batch EXCEPT !.scale = scale])
  /\ UNCHANGED added

\* A measurement: the layout is computed when the cache is invalid, and read
\* from the cache otherwise.
measured(b) ==
  IF b.layout_cache = NoCache
  THEN [batch |-> [b EXCEPT !.layout_cache = layout(b)], recomputed |-> TRUE]
  ELSE [batch |-> b, recomputed |-> FALSE]

\* The measurements since the last mutation: the first, and the latest after it.
Noted(ms, m) == IF Len(ms) < 2 THEN Append(ms, m) ELSE <<ms[1], m>>

Measure(op) ==
  /\ LET m == measured(batch)
     IN /\ batch' = m.batch
        /\ meas' = Noted(meas, [op |-> op, recomputed |-> m.recomputed,
                                value |-> IF op = "width" THEN m.batch.layout_cache.w
                                          ELSE m.batch.layout_cache.h])
  /\ UNCHANGED <<added, loop_vars, queue_vars>>

\* width(ctx)
width ==
  /\ batch /= NoBatch
  /\ Measure("width")

\* height(ctx)
height ==
  /\ batch /= NoBatch
  /\ Measure("height")

\* ------------------------------------------------------------ the draw queue
\* The most entries queued between two calls of draw_queued, and the most calls
\* of draw_queued.
MaxQueue == 2
MaxFlushes == 2

\* The batches the caller queues: one of a single raw string, and one of three
\* fragments of different styles.
HelloBatch == [EmptyBatch EXCEPT !.fragments = <<TextFragment_new("Hi")>>]
DemoBatch ==
  [EmptyBatch EXCEPT !.fragments = <<FancyFragment, TextFragment_new(" "),
                                     TextFragment_new("Hi"), MagentaFragment>>]
QueueBatches == {HelloBatch, DemoBatch}
\* The colours the caller overrides an entry with (None: no override).
Overrides == {None, "cyan"}

\* An entry of the queue: the batch it refers to, its offset and colour
\* override, and the number of draw_queued calls made before it was queued.
Queued(batch_ref, offset, override_color, queued_at) ==
  [batch_ref |-> batch_ref, offset |-> offset, override_color |-> override_color,
   queued_at |-> queued_at]

\* The style a fragment is drawn with in a batch.
style(f, b) ==
  [color |-> f.color,
   font_id |-> IF f.font_id = None THEN b.font_id ELSE f.font_id,
   scale |-> IF f.scale = NoScale THEN b.scale ELSE f.scale]

\* The number of contiguous runs of fragments of identical style in a batch.
RECURSIVE runs(_, _)
runs(fs, b) ==
  IF fs = <<>> THEN 0
  ELSE IF Len(fs) = 1 THEN 1
  ELSE IF style(fs[1], b) = style(fs[2], b) THEN runs(Tail(fs), b)
  ELSE 1 + runs(Tail(fs), b)

\* The draw calls a queue asks of the backend: for every entry in order, one
\* per run of its batch.
RECURSIVE draw_calls(_)
draw_calls(q) ==
  IF q = <<>> THEN <<>>
  ELSE [r \in 1..runs(Head(q).batch_ref.fragments, Head(q).batch_ref) |->
          [entry |-> Head(q), run |-> r]] \o draw_calls(Tail(q))

\* As draw_queued_result, with the error of the backend returned before the
\* queue is cleared.
draw_queued_result_keeps_on_failure(q, fail_at) ==
  LET calls == draw_calls(q)
  IN IF fail_at = 0
     THEN [queue |-> <<>>, submitted |-> calls, ret |-> Ok("unit")]
     ELSE [queue |-> q, submitted |-> SubSeq(calls, 1, fail_at - 1),
           ret |-> Err("BackendError")]

\* draw_queued on a queue whose fail_at-th draw call the backend refuses (none
\* when fail_at is 0): the calls before it are submitted, and the queue is
\* cleared whatever happened.
draw_queued_result(q, fail_at) ==
  LET calls == draw_calls(q)
  IN IF fail_at = 0
     THEN [queue |-> <<>>, submitted |-> calls, ret |-> Ok("unit")]
     ELSE [queue |-> <<>>, submitted |-> SubSeq(calls, 1, fail_at - 1),
           ret |-> Err("BackendError")]

\* queue(ctx, batch, offset, color_override): appends an entry.
queue ==
  /\ Len(draw_queue) < MaxQueue
  /\ \E b \in QueueBatches, c \in Overrides :
       draw_queue' = Append(draw_queue, Queued(b, <<0, 0>>, c, flushes))
  /\ UNCHANGED <<flushes, last_flush, loop_vars, batch_vars>>

\* draw_queued(ctx, shared_params)
draw_queued ==
  /\ flushes < MaxFlushes
  /\ \E fail_at \in 0..Len(draw_calls(draw_queue)) :
       LET r == draw_queued_result(draw_queue, fail_at)
       IN /\ draw_queue' = r.queue
          /\ last_flush' = [n |-> flushes + 1, before |-> draw_queue,
                            submitted |-> r.submitted, ret |-> r.ret]
  /\ flushes' = flushes + 1
  /\ UNCHANGED <<loop_vars, batch_vars>>

NoFlush == [n |-> 0, before |-> <<>>, submitted |-> <<>>, ret |-> NoRet]
NoText ==
  /\ batch = NoBatch
  /\ added = <<>>
  /\ meas = <<>>
  /\ draw_queue = <<>>
  /\ flushes = 0
  /\ last_flush = NoFlush

\* ------------------------------------------------------------ specifications
RunIdle ==
  /\ pending = <<>>
  /\ arrived = 0
  /\ done = FALSE
  /\ it = 0
  /\ polled = <<>>
  /\ log = <<>>
  /\ ret = NoRet
  /\ last_op = NoOp
  /\ NoText

\* Before Game::new: there is no Game yet.
InitNew ==
  /\ pc = "start"
  /\ conf = NoConf
  /\ state = NoState
  /\ context = NoContext
  /\ default_config = NoConf
  /\ conf_file = AbsentFile
  /\ new_trace = <<>>
  /\ new_ret = NoRet
  /\ RunIdle

\* Game::new alone, over every default config, every content of conf.toml and
\* every failure of the platform and of load.
NextNew == new

SpecNew == InitNew /\ [][NextNew]_vars

\* After construction: Game::new("confA") has succeeded where there is no
\* conf.toml (nothing below reads the config).
Init ==
  /\ pc = "idle"
  /\ LET r == new_result("confA", AbsentFile, TRUE, TRUE, TRUE, "none")
     IN /\ default_config = "confA"
        /\ conf_file = AbsentFile
        /\ new_trace = r.trace
        /\ new_ret = r.ret
        /\ conf = r.game.conf
        /\ state = r.game.state
        /\ context = r.game.context
  /\ RunIdle

Next ==
  \/ platform_event
  \/ run_enter
  \/ tick
  \/ poll
  \/ update
  \/ draw
  \/ quit

Spec == Init /\ [][Next]_vars

\* The life of a Game: Game::new over all its inputs, then any sequence of
\* reload_state, replace_state_with, replace_state and run, where the only
\* platform event is Quit.
NextState ==
  \/ new
  \/ reload_state
  \/ replace_state_with
  \/ replace_state
  \/ platform_quit
  \/ run_enter
  \/ tick
  \/ poll
  \/ update
  \/ draw
  \/ quit

SpecState == InitNew /\ [][NextState]_vars

\* A TextBatch in the caller's hands: built, given fragments, changed and
\* measured in any order.
NextBatch ==
  \/ TextBatch_new
  \/ TextBatch_new_empty
  \/ add_fragment
  \/ fragments_mut
  \/ set_bounds
  \/ set_font
  \/ set_scale
  \/ width
  \/ height

SpecBatch == Init /\ [][NextBatch]_vars

\* The draw queue over the frames of a game: entries are queued and flushed.
NextQueue ==
  \/ queue
  \/ draw_queued

SpecQueue == Init /\ [][NextQueue]_vars

\* ---------------------------------------------------------------- properties
\* The GameState callbacks an event can be handed to.
EventCallbacks ==
  {"key_down_event", "key_up_event", "mouse_button_down_event", "mouse_button_up_event",
   "mouse_motion_event", "mouse_wheel_event", "focus"}

\* The indices of the log where `op` was called in iteration i.
Idx(op, i) == {k \in DOMAIN log : log[k].op = op /\ log[k].it = i}
OkIdx(op, i) == {k \in Idx(op, i) : log[k].res = "ok"}
\* The log entries made for the n-th polled event.
ForEvent(n) == {k \in DOMAIN log : log[k].n = n}
Iterations == 1..it
\* The last call of run has returned.
Returned == pc = "idle" /\ ret /= NoRet
IsEscapeDown(e) == e.kind = "KeyDown" /\ e.keycode = "Escape"
PolledAt(e, i) == \E n \in DOMAIN polled : polled[n].ev = e /\ polled[n].it = i
EscapePolledAt(i) ==
  \E n \in DOMAIN polled : IsEscapeDown(polled[n].ev) /\ polled[n].it = i
LastIs(op, i) ==
  /\ log /= <<>>
  /\ log[Len(log)].op = op
  /\ log[Len(log)].it = i

\* C1: in every iteration, every event polled in the iteration's drain was
\* polled, and its callback (if it has one) was called, before update of that
\* iteration; draw of an iteration is called only after its update has returned
\* Ok; and no event callback lies between the update and the draw of an
\* iteration.
C1_EventsThenUpdateThenDraw ==
  /\ \A n \in DOMAIN polled : \A u \in Idx("update", polled[n].it) :
        /\ polled[n].at < u
        /\ \A k \in ForEvent(n) : k < u /\ log[k].it = polled[n].it
  /\ \A k \in DOMAIN log :
        log[k].op \in EventCallbacks =>
          /\ \A u \in Idx("update", log[k].it) : k < u
          /\ \A d \in Idx("draw", log[k].it) : k < d
  /\ \A i \in Iterations : \A d \in Idx("draw", i) :
        \E u \in OkIdx("update", i) : u < d

\* C1 witness: an iteration in which an event callback, then update, then draw
\* were called.
C1_Witness ==
  \E k, u, d \in DOMAIN log :
    /\ log[k].op \in EventCallbacks
    /\ log[u].op = "update" /\ log[u].it = log[k].it
    /\ log[d].op = "draw" /\ log[d].it = log[k].it
    /\ k < u /\ u < d

\* C2: when a Quit event was polled in iteration i and update and draw of
\* iteration i both returned Ok, then update and draw were each called exactly
\* once in iteration i, update before draw; nothing was done in a later
\* iteration; the only step run can take after the draw is the quit callback;
\* and once run has returned, it returned Ok and the quit callback was called
\* exactly once, right after that draw.
C2_QuitEndsAfterTick ==
  \A i \in Iterations :
    (PolledAt(QuitEvent, i) /\ OkIdx("update", i) /= {} /\ OkIdx("draw", i) /= {}) =>
      /\ Cardinality(Idx("update", i)) = 1
      /\ Cardinality(Idx("draw", i)) = 1
      /\ \A u \in Idx("update", i) : \A d \in Idx("draw", i) : u < d
      /\ \A k \in DOMAIN log : log[k].it <= i
      /\ it = i
      /\ pc \in {"loop", "idle"}
      /\ pc = "loop" => (done /\ ENABLED quit /\ ~ENABLED tick)
      /\ pc = "idle" =>
            /\ ret = Ok("unit")
            /\ Cardinality({k \in DOMAIN log : log[k].op = "quit"}) = 1
            /\ LastIs("quit", i)
            /\ log[Len(log) - 1].op = "draw"

\* C2 witness: run has returned Ok after a tick in which Quit was polled.
C2_Witness ==
  /\ Returned
  /\ ret = Ok("unit")
  /\ PolledAt(QuitEvent, it)
  /\ LastIs("quit", it)

C4_EscapeAlwaysEndsOk ==
  \A i \in Iterations :
    (EscapePolledAt(i) /\ Returned) =>
      /\ OkIdx("update", i) /= {}
      /\ OkIdx("draw", i) /= {}
      /\ LastIs("quit", i)
      /\ ret = Ok("unit")

\* C4 amended: when an Escape key-down was polled in iteration i, no later
\* iteration is started; once the drain is over `done` is set, so the loop can
\* only be left; and once run has returned, either a call of iteration i
\* (ctx.quit(), update or draw) failed and run returned that error, or update
\* and draw of iteration i were each called once and returned Ok, the quit
\* callback was called last and run returned Ok.
C4_EscapeEndsAfterTick ==
  \A i \in Iterations :
    EscapePolledAt(i) =>
      /\ it = i
      /\ \A k \in DOMAIN log : log[k].it <= i
      /\ pc = "loop" => (done /\ ENABLED quit /\ ~ENABLED tick)
      /\ Returned =>
            \/ /\ ~ret.ok
               /\ log[Len(log)].res = ret.err
               /\ log[Len(log)].op \in {"ctx_quit", "update", "draw"}
               /\ log[Len(log)].it = i
            \/ /\ ret = Ok("unit")
               /\ \A k \in DOMAIN log : log[k].res = "ok"
               /\ Cardinality(OkIdx("update", i)) = 1
               /\ Cardinality(OkIdx("draw", i)) = 1
               /\ \A u \in Idx("update", i) : \A d \in Idx("draw", i) : u < d
               /\ LastIs("quit", i)
               /\ log[Len(log) - 1].op = "draw"

\* C4 witness: run has returned Ok after an Escape key-down, with no Quit event
\* from the platform.
C4_Witness ==
  /\ Returned
  /\ ret = Ok("unit")
  /\ EscapePolledAt(it)
  /\ arrived = 1
  /\ LastIs("quit", it)

\* C5: a call of update or draw that returned an error is the last call run
\* made (no draw after a failed update, no later iteration, no quit callback, no
\* second attempt), and run has returned exactly that error.
C5_CallbackErrorReturned ==
  \A k \in DOMAIN log :
    (log[k].op \in {"update", "draw"} /\ log[k].res /= "ok") =>
      /\ k = Len(log)
      /\ Returned
      /\ ret = Err(log[k].res)

\* C5 witness: draw failed in the second iteration and run returned its error.
C5_Witness ==
  /\ Returned
  /\ LastIs("draw", 2)
  /\ log[Len(log)].res \in Errors
  /\ ret = Err(log[Len(log)].res)

\* C6: run has returned Ok only if a Quit event was polled in a drain of this
\* call (one the platform queued, or the one queued for the Escape key); an
\* update that returned Ok is followed by the draw of the same iteration and by
\* nothing else; and a run that entered the loop has returned only after a
\* quit was polled or after a callback returned an error.
C6_OnlyQuitEndsLoop ==
  /\ (Returned /\ ret.ok) =>
        \E n \in DOMAIN polled :
          /\ polled[n].ev = QuitEvent
          /\ Idx("update", polled[n].it) /= {}
          /\ \A u \in Idx("update", polled[n].it) : polled[n].at < u
  /\ \A u \in DOMAIN log :
        (log[u].op = "update" /\ log[u].res = "ok") =>
          IF u = Len(log) THEN pc = "draw"
          ELSE log[u + 1].op = "draw" /\ log[u + 1].it = log[u].it
  /\ (Returned /\ log /= <<>>) =>
        \/ \E n \in DOMAIN polled : polled[n].ev = QuitEvent \/ IsEscapeDown(polled[n].ev)
        \/ ret.err \in Errors

\* C6 witness: run has returned Ok in its second iteration, the Quit event
\* having been polled in that iteration.
C6_Witness ==
  /\ Returned
  /\ ret.ok
  /\ it = 2
  /\ PolledAt(QuitEvent, 2)

\* The callback the event taxonomy of the specification names for an event.
TaxonomyCallback(e) ==
  CASE e.kind = "KeyDown" -> "key_down_event"
    [] e.kind = "KeyUp" -> "key_up_event"
    [] e.kind = "MouseButtonDown" -> "mouse_button_down_event"
    [] e.kind = "MouseButtonUp" -> "mouse_button_up_event"
    [] e.kind = "MouseMotion" -> "mouse_motion_event"
    [] e.kind = "MouseWheel" -> "mouse_wheel_event"
    [] e.kind = "TextInput" -> "text_input_event"
    [] e.kind = "ControllerButtonDown" -> "controller_button_down_event"
    [] e.kind = "ControllerButtonUp" -> "controller_button_up_event"
    [] e.kind = "ControllerAxisMotion" -> "controller_axis_event"
    [] e.kind = "Window" -> "focus"
    [] OTHER -> "none"

\* The events of the taxonomy other than quit, resize and the Escape key-down.
Forwarded(e) ==
  /\ e.kind /= "Quit"
  /\ ~IsEscapeDown(e)
  /\ e.kind = "Window" => e.win_event_id \in {"FocusGained", "FocusLost"}

\* C7 as stated: every polled event of the taxonomy other than quit, resize and
\* the Escape key-down has exactly one callback invocation, that of its own
\* callback.
C7_EveryEventDispatchedOnce ==
  \A n \in DOMAIN polled :
    Forwarded(polled[n].ev) =>
      /\ Cardinality(ForEvent(n)) = 1
      /\ \A k \in ForEvent(n) : log[k].op = TaxonomyCallback(polled[n].ev)

\* C8: every polled key-down whose keycode is not Escape (no keycode and key
\* repeats included) has exactly one log entry, a call of key_down_event with
\* that event, made in the iteration it was polled in.
C8_KeyDownForwardedOnce ==
  \A n \in DOMAIN polled :
    (polled[n].ev.kind = "KeyDown" /\ polled[n].ev.keycode /= "Escape") =>
      /\ Cardinality(ForEvent(n)) = 1
      /\ \A k \in ForEvent(n) :
            /\ log[k].op = "key_down_event"
            /\ log[k].ev = polled[n].ev
            /\ log[k].it = polled[n].it

\* C8 witness: a key-down without keycode and a repeated key-down have both
\* been polled and forwarded.
C8_Witness ==
  \E n, m \in DOMAIN polled :
    /\ polled[n].ev = Ev("KeyDown", "None", FALSE, "None")
    /\ polled[m].ev = Ev("KeyDown", "A", TRUE, "None")
    /\ ForEvent(n) /= {}
    /\ ForEvent(m) /= {}

\* conf.toml is absent, or cannot be opened, or does not parse.
NoUsableConfFile ==
  ~conf_file.is_file \/ ~conf_file.open_ok \/ conf_file.toml = "malformed"
ConfigErrors == {"IOError", "ConfigError(parse)", "ConfigError(Config file not found)"}

\* C9: after Game::new where conf.toml is absent, unreadable or malformed: new
\* did not return a config error; every call new made (Context::from_conf,
\* load) was given default_config; when both calls succeeded new succeeded; and
\* the Game and its Context hold default_config.
C9_FallbackToDefaultConfig ==
  (pc /= "start" /\ NoUsableConfFile) =>
    /\ new_ret.err \notin ConfigErrors
    /\ \A k \in DOMAIN new_trace : new_trace[k].conf = default_config
    /\ (Len(new_trace) = 2 /\ \A k \in DOMAIN new_trace : new_trace[k].ok) => new_ret.ok
    /\ new_ret.ok =>
          /\ conf = default_config
          /\ context.built_from = default_config
          /\ state.conf = default_config
          /\ \E k \in DOMAIN new_trace : new_trace[k].op = "load"

\* C9 witness: new succeeded with a malformed conf.toml and a default config
\* that is not the first of Confs.
C9_Witness ==
  /\ pc = "idle"
  /\ conf_file.is_file /\ conf_file.toml = "malformed"
  /\ default_config = "confB"
  /\ conf = "confB"

Loads == {k \in DOMAIN new_trace : new_trace[k].op = "load"}
ResolvedConfig ==
  IF NoUsableConfFile THEN default_config ELSE conf_file.toml

\* C10: Game::new calls load at most once, and only after Context::from_conf
\* has succeeded on the resolved config, with that same config; a successful new
\* has called load exactly once; when load failed new returned load's error and
\* there is no Game; when the platform, the filesystem or the Context failed,
\* new returned that error and load was not called.
C10_LoadOnceAfterContext ==
  pc /= "start" =>
    /\ Cardinality(Loads) <= 1
    /\ \A k \in Loads :
          /\ k = 2
          /\ new_trace[1] = Call("from_conf", ResolvedConfig, TRUE)
          /\ new_trace[k].conf = ResolvedConfig
          /\ ~new_trace[k].ok => (new_ret.err \in Errors /\ pc = "new_failed")
          /\ new_trace[k].ok => new_ret.ok
    /\ new_ret.ok =>
          /\ Cardinality(Loads) = 1
          /\ pc = "idle"
          /\ conf = ResolvedConfig
          /\ context.built_from = ResolvedConfig
          /\ state = [made_by |-> "load", conf |-> ResolvedConfig]
    /\ ~new_ret.ok =>
          /\ pc = "new_failed"
          /\ <<conf, state, context>> = <<NoConf, NoState, NoContext>>
          /\ new_ret.err \in Errors \cup {"SdlInitError", "FilesystemError", "ContextError"}
    /\ new_ret.err \in {"SdlInitError", "FilesystemError", "ContextError"} => Loads = {}
    /\ new_ret.err \in Errors => Loads /= {}

\* C10 witness: load failed after the Context was built from a config read from
\* conf.toml, and new returned its error.
C10_Witness ==
  /\ pc = "new_failed"
  /\ new_ret.err \in Errors
  /\ Len(new_trace) = 2
  /\ new_trace[2] = Call("load", conf_file.toml, FALSE)
  /\ conf_file.toml \in Confs
  /\ conf_file.toml /= default_config

\* ------------------------------------------- reload_state, replace_state_with, replace_state
LastOp(op) == last_op.op = op

\* C11 as stated: the config reload_state hands to load is the config that was
\* passed to Game::new.
C11_LoadGetsConfigPassedToNew ==
  LastOp("reload_state") =>
    \A k \in DOMAIN last_op.calls : last_op.calls[k].conf = default_config

\* C11: whatever calls of replace_state, replace_state_with and run came before,
\* reload_state calls load once, with the config Game::new resolved and stored
\* (conf.toml's when one was read, else the config passed to new): the very
\* config load was given inside new, which nothing has changed since.
C11_LoadGetsStoredConfig ==
  LastOp("reload_state") =>
    /\ Len(last_op.calls) = 1
    /\ last_op.calls[1].fn = "load"
    /\ last_op.calls[1].conf = ResolvedConfig
    /\ \A k \in Loads : last_op.calls[1].conf = new_trace[k].conf
    /\ last_op.ret.ok => state.conf = ResolvedConfig

\* C11 witness: a Game built from a conf.toml that differs from the config
\* passed to new; a run has returned, replace_state has given the Game a state,
\* and reload_state has then succeeded.
C11_Witness ==
  /\ LastOp("reload_state")
  /\ last_op.ret.ok
  /\ last_op.prev.state \in GivenStates
  /\ Returned
  /\ ~NoUsableConfFile
  /\ conf_file.toml /= default_config

\* C12: reload_state calls load with the Game's Context; when load fails,
\* reload_state returns load's error and the Game's state, config and Context
\* are those it held before the call, the Context being usable by run; when load
\* succeeds, the state is the value load returned and config and Context are
\* unchanged.
C12_ReloadKeepsOrReplaces ==
  LastOp("reload_state") =>
    /\ \A k \in DOMAIN last_op.calls : last_op.calls[k].ctx = last_op.prev.context
    /\ conf = last_op.prev.conf
    /\ context = last_op.prev.context
    /\ context /= NoContext
    /\ pc = "idle" => ENABLED run_enter
    /\ ~last_op.ret.ok =>
          /\ last_op.ret.err \in Errors
          /\ state = last_op.prev.state
          /\ state /= NoState
    /\ last_op.ret.ok =>
          /\ state = last_op.made
          /\ state = [made_by |-> "load", conf |-> last_op.calls[1].conf]

\* C12 witness: reload_state failed on a Game whose state came from a factory,
\* and a later run on the same Context has reached update.
C12_Witness ==
  /\ LastOp("reload_state")
  /\ last_op.ret = Err("E2")
  /\ state.made_by = "factory"
  /\ \E i \in Iterations : OkIdx("update", i) /= {}

\* C13: replace_state_with calls the factory exactly once, with the Game's
\* Context and stored config, and calls nothing else (load is not called); on Ok
\* the state is the factory's result; on Err the error is returned and state,
\* config and Context are those before the call.
C13_FactoryOnceNoLoad ==
  LastOp("replace_state_with") =>
    /\ last_op.calls = <<Made("factory", last_op.prev.context, last_op.prev.conf)>>
    /\ last_op.prev.conf = ResolvedConfig
    /\ conf = last_op.prev.conf
    /\ context = last_op.prev.context
    /\ last_op.ret.ok =>
          /\ state = last_op.made
          /\ state = [made_by |-> "factory", conf |-> conf]
    /\ ~last_op.ret.ok =>
          /\ last_op.ret.err \in Errors
          /\ state = last_op.prev.state

\* C13 witness: the factory failed on a Game whose state a caller had given, and
\* that state is still the Game's.
C13_Witness ==
  /\ LastOp("replace_state_with")
  /\ last_op.ret = Err("E1")
  /\ state \in GivenStates

\* C14: replace_state returns without error, the Game's state is the given
\* value, no load, factory or callback was called, Context and config are those
\* before the call (the Context is the one Game::new built, the only one ever
\* built), and replace_state can be applied again.
C14_ReplaceStateDirect ==
  LastOp("replace_state") =>
    /\ last_op.ret.ok
    /\ last_op.made \in GivenStates
    /\ state = last_op.made
    /\ last_op.calls = <<>>
    /\ conf = last_op.prev.conf
    /\ context = last_op.prev.context
    /\ context = [built_from |-> ResolvedConfig]
    /\ Cardinality({k \in DOMAIN new_trace : new_trace[k].op = "from_conf"}) = 1
    /\ pc = "idle" => ENABLED replace_state

\* C14 witness: replace_state applied to a Game whose state an earlier
\* replace_state had given, with another state, after a run has returned.
C14_Witness ==
  /\ LastOp("replace_state")
  /\ last_op.prev.state \in GivenStates
  /\ state /= last_op.prev.state
  /\ Returned

\* ------------------------------------------------------------ entry of Game::run
\* C15: a step from a Game at rest in which run returns the event pump's error
\* leaves no call behind it (no tick, no event taken from the queue, no event
\* callback, no update, draw or quit), and leaves the Game's state, config and
\* Context as they were.
C15_PumpFailureReturnsAtOnce ==
  [][(pc = "idle" /\ ret' = Err("EventPumpError") /\ run_vars' /= run_vars) =>
        /\ pc' = "idle"
        /\ log' = <<>>
        /\ polled' = <<>>
        /\ it' = 0
        /\ pending' = pending
        /\ conf' = conf
        /\ state' = state
        /\ context' = context]_vars

\* C15 witness: run has returned the event pump's error on a Game whose state a
\* caller had given, with an event waiting in the queue.
C15_Witness ==
  /\ pc = "idle"
  /\ ret = Err("EventPumpError")
  /\ state \in GivenStates
  /\ pending /= <<>>
  /\ log = <<>>

\* ------------------------------------------------------------ dispatch of events
\* The seven kinds of event C19 lists, and the callback it names for each.
Listed(e) ==
  \/ e.kind \in {"KeyUp", "MouseButtonDown", "MouseButtonUp", "MouseMotion", "MouseWheel"}
  \/ e.kind = "Window" /\ e.win_event_id \in {"FocusGained", "FocusLost"}
ListedCallback(e) ==
  CASE e.kind = "KeyUp" -> "key_up_event"
    [] e.kind = "MouseButtonDown" -> "mouse_button_down_event"
    [] e.kind = "MouseButtonUp" -> "mouse_button_up_event"
    [] e.kind = "MouseMotion" -> "mouse_motion_event"
    [] e.kind = "MouseWheel" -> "mouse_wheel_event"
    [] e.kind = "Window" -> "focus"
\* Every kind that is not listed.
NotListed(e) == ~Listed(e)
\* The kinds that are neither listed, nor Quit, nor KeyDown.
Unrecognised(e) == ~Listed(e) /\ e.kind \notin {"Quit", "KeyDown"}
\* The calls of GameState callbacks made for the n-th polled event.
CallbacksFor(n) == {k \in ForEvent(n) : log[k].op \in EventCallbacks}

\* Each polled event has at most one callback call, made when it was polled
\* (in its own iteration, and before the next event was polled: the calls are
\* in pump order), and
\* each listed event has exactly the call of its own callback, focus being told
\* whether focus was gained.
DispatchedInOrder ==
  \A n \in DOMAIN polled :
    /\ Cardinality(CallbacksFor(n)) <= 1
    /\ \A k \in ForEvent(n) : k = polled[n].at + 1 /\ log[k].it = polled[n].it
    /\ n > 1 => polled[n - 1].at + Cardinality(ForEvent(n - 1)) <= polled[n].at
    /\ Listed(polled[n].ev) =>
          /\ ForEvent(n) = {polled[n].at + 1}
          /\ \A k \in ForEvent(n) :
                /\ log[k].op = ListedCallback(polled[n].ev)
                /\ log[k].ev = polled[n].ev
                /\ log[k].res = "ok"
                /\ log[k].op = "focus" =>
                      log[k].gained = (polled[n].ev.win_event_id = "FocusGained")

\* The events that satisfy Other have no callback called for them, no
\* failed call is theirs, and the loop is told to end only when some event that
\* does not satisfy Other has been polled.
DroppedQuietly(Other(_)) ==
  /\ \A n \in DOMAIN polled : Other(polled[n].ev) => CallbacksFor(n) = {}
  /\ \A k \in DOMAIN log :
        (log[k].res /= "ok" /\ log[k].n /= 0) => ~Other(polled[log[k].n].ev)
  /\ done => \E n \in DOMAIN polled : ~Other(polled[n].ev)

\* C19 as stated: polled events are dispatched one callback at most each, in
\* pump order, the seven listed kinds to their callbacks, and an event of any
\* kind that is not listed invokes no callback, raises no error and does not
\* end the loop.
C19_AnyOtherKindDropped ==
  /\ DispatchedInOrder
  /\ DroppedQuietly(NotListed)

\* C19: at every moment of every run, the events polled so far were dispatched
\* one callback at most each, in pump order, the seven listed kinds to their
\* callbacks; and an event of a kind that is neither listed, nor Quit, nor
\* KeyDown invoked no callback, raised no error and did not end the loop.
C19_ListedDispatchedRestDropped ==
  [](DispatchedInOrder /\ DroppedQuietly(Unrecognised))

\* C19 witness: a focus-lost event and then a resize of the window were polled
\* in one drain; focus(false) was called for the first and nothing for the
\* second, and the loop went on to update.
C19_Witness ==
  /\ Len(polled) = 2
  /\ polled[1].ev = Ev("Window", "None", FALSE, "FocusLost")
  /\ polled[2].ev = Ev("Window", "None", FALSE, "Resized")
  /\ ~done
  /\ \E k \in ForEvent(1) : log[k].op = "focus" /\ ~log[k].gained
  /\ OkIdx("update", polled[2].it) /= {}

\* ------------------------------------------------------------ the timer
\* The calls of `op` made so far in this run.
All(op) == {k \in DOMAIN log : log[k].op = op}

\* The order of the timer's calls in the log of a run, as far as it has got:
\* every iteration that has begun has exactly one tick of the timer, which is
\* the first call of the iteration (the log goes through the iterations in
\* order, and a call belongs to the next iteration exactly when it is a tick);
\* every event was polled after the tick of its iteration; the delta is read at
\* most once in an iteration, after every event of the iteration was polled and
\* dispatched, and update is the very next call; and the ticks made before an
\* update are one more than the updates before it: exactly one tick lies
\* between an update and the update before it.
TickThenEventsThenDelta ==
  /\ (it = 0) = (log = <<>>)
  /\ log /= <<>> => (log[1].op = "tick" /\ log[1].it = 1 /\ log[Len(log)].it = it)
  /\ \A k \in 2..Len(log) :
        log[k].it = IF log[k].op = "tick" THEN log[k - 1].it + 1 ELSE log[k - 1].it
  /\ \A n \in DOMAIN polled :
        /\ polled[n].at >= 1
        /\ log[polled[n].at].it = polled[n].it
  /\ \A k \in DOMAIN log :
        /\ log[k].op = "get_delta" =>
              /\ k < Len(log) /\ log[k + 1].op = "update"
              /\ \A n \in DOMAIN polled : polled[n].it = log[k].it => polled[n].at < k
              /\ \A j \in DOMAIN log :
                    /\ (j > k /\ log[j].it = log[k].it) => log[j].n = 0
                    /\ (j < k /\ log[j].op = "get_delta") => log[j].it < log[k].it
        /\ log[k].op = "update" =>
              /\ k > 1 /\ log[k - 1].op = "get_delta"
              /\ Cardinality({t \in All("tick") : t < k})
                   = Cardinality({u \in All("update") : u < k}) + 1

\* C20: at every moment of every run, each iteration begun so far has ticked
\* the timer exactly once, before polling or dispatching any of its events; the
\* delta handed to update was read after the drain of the same iteration; and
\* exactly one tick lies between an update and the update before it.
C20_OneTickBeforeEventsDeltaAfter == []TickThenEventsThenDelta

\* C20 witness: the second iteration of a run has polled an event, dispatched
\* it to its callback and called update, the first iteration having done so
\* too.
C20_Witness ==
  /\ it = 2
  /\ \A i \in {1, 2} :
        /\ Idx("update", i) /= {}
        /\ \E n \in DOMAIN polled : polled[n].it = i /\ CallbacksFor(n) /= {}

\* ------------------------------------------------------------ TextBatch
\* C16: a batch has as many fragments as were given to it (the one given to new
\* and those given to add_fragment; none for a batch of new_empty that was
\* given nothing), and, unless the caller has replaced it since, the fragment
\* at index i is the i-th given: the very fragment when a fragment was given,
\* an unstyled fragment of the string when a raw string was given.
C16_FragmentsInInsertionOrder ==
  batch /= NoBatch =>
    /\ Len(batch.fragments) = Len(added)
    /\ \A i \in DOMAIN added :
          /\ added[i].by = "new" => i = 1
          /\ ~added[i].replaced =>
                IF added[i].given.type = "TextFragment"
                THEN batch.fragments[i] = added[i].given.fragment
                ELSE /\ batch.fragments[i].text = added[i].given.str
                     /\ batch.fragments[i].color = None
                     /\ batch.fragments[i].font_id = None
                     /\ batch.fragments[i].scale = NoScale

\* C16 witness: a batch of new(fragment) that add_fragment has then given a
\* raw string; both are in the batch, in that order.
C16_Witness ==
  /\ Len(added) = 2
  /\ added[1] = Given(Frag(FancyFragment), "new")
  /\ added[2] = Given(Str(" "), "add_fragment")
  /\ batch.fragments = <<FancyFragment, TextFragment_new(" ")>>

\* C17: every measurement made since the last mutation of the batch returned
\* the extent of a fresh layout of the batch as it is now (its fragments,
\* bounds, font and scale); the first of them computed the layout, and one made
\* after it, with no mutation in between, did not compute it again and, for the
\* same extent, returned the same value; and a layout held in the cache is the
\* layout of the batch as it is now.
C17_MeasurementsFresh ==
  batch /= NoBatch =>
    /\ \A k \in DOMAIN meas :
          meas[k].value = IF meas[k].op = "width" THEN layout(batch).w ELSE layout(batch).h
    /\ meas /= <<>> => meas[1].recomputed
    /\ Len(meas) = 2 =>
          /\ ~meas[2].recomputed
          /\ meas[1].op = meas[2].op => meas[1].value = meas[2].value
    /\ batch.layout_cache /= NoCache => batch.layout_cache = layout(batch)

\* C17 witness: a bounded batch of two fragments, one of them replaced by the
\* caller, wraps on two lines; its width was measured twice since the last
\* mutation.
C17_Witness ==
  /\ Len(added) = 2
  /\ \E i \in DOMAIN added : added[i].replaced
  /\ batch.bounds.w < Infinity
  /\ Len(meas) = 2
  /\ meas[1].op = "width" /\ meas[2].op = "width"
  /\ layout(batch).h > Max(batch.scale, 2)

\* ------------------------------------------------------------ the draw queue
\* C18: every entry in the queue was queued after the last draw_queued (each
\* draw_queued left the queue empty, whether it returned Ok or the backend's
\* error); every draw call of the last draw_queued was for an entry of the queue
\* it found, queued since the draw_queued before it; a draw_queued that found
\* the queue empty returned Ok and submitted nothing; and nothing is submitted
\* before the first draw_queued, however many entries are queued.
C18_QueueClearedByFlush ==
  /\ \A k \in DOMAIN draw_queue : draw_queue[k].queued_at = flushes
  /\ last_flush.n = flushes
  /\ \A k \in DOMAIN last_flush.submitted :
        /\ last_flush.submitted[k].entry.queued_at = last_flush.n - 1
        /\ \E j \in DOMAIN last_flush.before :
              last_flush.before[j] = last_flush.submitted[k].entry
  /\ (flushes > 0 /\ last_flush.before = <<>>) =>
        /\ last_flush.ret = Ok("unit")
        /\ last_flush.submitted = <<>>
  /\ flushes > 0 => last_flush.ret \in {Ok("unit"), Err("BackendError")}
  /\ flushes = 0 => last_flush.submitted = <<>>

\* C18 witness: the second draw_queued found two entries and the backend
\* refused one of its draw calls after the first; an entry has been queued
\* since, and it is alone in the queue.
C18_Witness ==
  /\ flushes = 2
  /\ Len(last_flush.before) = 2
  /\ last_flush.ret = Err("BackendError")
  /\ last_flush.submitted /= <<>>
  /\ Len(draw_queue) = 1

\* ------------------------------------------------------------ the drain after Quit
\* The events that have a callback of their own.
HasCallback(e) == Listed(e) \/ (e.kind = "KeyDown" /\ ~IsEscapeDown(e))
\* This step polls an event; this step calls update.
Polls == pc = "drain" /\ pending /= <<>> /\ polled' /= polled
CallsUpdate ==
  /\ Len(log') > Len(log)
  /\ log'[Len(log')].op = "update"

\* C21: a step that polls a Quit event sets `done` and leaves run in the drain
\* with the events behind the Quit event still to be polled; an event polled
\* once `done` is set is dispatched like any other (its callback is called, for
\* that event, if it has one); update is called only when no event is pending,
\* so every event behind a Quit event was polled before it; and once the drain
\* of an iteration in which `done` was set is over, that run polls no event and
\* calls no event callback any more, whatever is queued in the meantime.
C21_QuitDoesNotStopDrain ==
  [][/\ (Polls /\ Head(pending) = QuitEvent) =>
          /\ done'
          /\ pc' = "drain"
          /\ pending' = Tail(pending)
          /\ ret' = ret
     /\ (Polls /\ done /\ HasCallback(Head(pending))) =>
          /\ pc' = "drain"
          /\ pending' = Tail(pending)
          /\ Len(log') = Len(log) + 1
          /\ log'[Len(log')].op \in EventCallbacks
          /\ log'[Len(log')].ev = Head(pending)
          /\ log'[Len(log')].it = it
     /\ CallsUpdate => pending = <<>>
     /\ (done /\ (pc \in {"draw", "loop"} \/ CallsUpdate)) =>
          /\ polled' = polled
          /\ \A k \in DOMAIN log' : k > Len(log) => log'[k].op \notin EventCallbacks
          /\ pc' \in {"draw", "loop", "idle"}]_vars

\* C21 witness: a Quit event and, behind it in the same drain, a key-up event
\* were polled; key_up_event was called for the second, then update, and run
\* has returned Ok.
C21_Witness ==
  /\ Returned
  /\ Len(polled) = 2
  /\ polled[1].ev = QuitEvent
  /\ polled[2].ev.kind = "KeyUp"
  /\ polled[2].it = polled[1].it
  /\ \E k \in ForEvent(2) : \E u \in Idx("update", polled[2].it) :
        k < u /\ log[k].op = "key_up_event"
  /\ ret = Ok("unit")

\* ------------------------------------------------------------ the ticks of a run
\* The last call of run acquired the event pump and has returned.
ReturnedAcquired == Returned /\ ret /= Err("EventPumpError")
\* Iteration i is a full tick: its update and its draw were called and
\* returned Ok.
FullTick(i) == OkIdx("update", i) /= {} /\ OkIdx("draw", i) /= {}

\* C22 as stated: every call of run that acquired the event pump and has
\* returned has executed at least one full tick; and a run that returned Ok
\* has called update and draw the same number of times, at least once, once
\* per tick, and the quit callback exactly once, as the last callback.
C22_AlwaysOneFullTick ==
  ReturnedAcquired =>
    /\ it >= 1
    /\ FullTick(1)
    /\ ret.ok =>
          /\ Cardinality(All("update")) = Cardinality(All("draw"))
          /\ Cardinality(All("quit")) = 1
          /\ LastIs("quit", it)

\* The ticks of a run that acquired the event pump: it enters the loop with
\* `done` cleared, whatever the previous call left, so that its first tick is
\* begun; a run that has returned has ticked the timer at least once; when it
\* returned Ok every iteration is a full tick with exactly one update and one
\* draw, and the quit callback was called exactly once, as the last call; when
\* it returned an error, the error is that of its last call (ctx.quit(), update
\* or draw), the tick of that call is not completed and the quit callback was
\* not called.
TicksOfRun ==
  /\ (pc = "loop" /\ it = 0) => (~done /\ log = <<>> /\ ENABLED tick)
  /\ All("quit") /= {} => (Returned /\ ret.ok)
  /\ ReturnedAcquired =>
        /\ it >= 1
        /\ Cardinality(All("tick")) = it
        /\ ret.ok =>
              /\ \A i \in Iterations :
                    /\ FullTick(i)
                    /\ Cardinality(Idx("update", i)) = 1
                    /\ Cardinality(Idx("draw", i)) = 1
              /\ Cardinality(All("update")) = it
              /\ Cardinality(All("draw")) = it
              /\ Cardinality(All("quit")) = 1
              /\ LastIs("quit", it)
        /\ ~ret.ok =>
              /\ log[Len(log)].res = ret.err
              /\ log[Len(log)].op \in {"ctx_quit", "update", "draw"}
              /\ log[Len(log)].it = it
              /\ ~FullTick(it)
              /\ All("quit") = {}

\* C22: at every moment, a run that acquired the event pump begins at least
\* one tick, `done` being cleared on entry even when the previous call ended by
\* quit and even when a Quit event is the first event pending, and completes
\* it unless ctx.quit(), update or draw fails in it; whenever run returns Ok,
\* update and draw were each invoked once per tick, at least once, and the quit
\* callback exactly once, as the last callback.
C22_OneTickUnlessError == []TicksOfRun

\* C22 witness: an earlier call of run has consumed an event; this call found
\* a Quit event first in the queue, made one full tick all the same, called
\* the quit callback and returned Ok.
C22_Witness ==
  /\ Returned /\ ret = Ok("unit")
  /\ arrived = 2 /\ pending = <<>>
  /\ Len(polled) = 1
  /\ polled[1].ev = QuitEvent /\ polled[1].at = 1
  /\ it = 1 /\ FullTick(1)
  /\ LastIs("quit", 1)

\* ------------------------------------------------------------ the stored config
\* C23: once Game::new has succeeded, whatever calls of run, reload_state,
\* replace_state_with and replace_state have been made since, failed ones
\* included, the Game's config is the config new resolved: the one new built
\* the Context from and handed to the first load; it is the config the Game
\* held before the last of those calls, and the config that call handed to load
\* or to the factory.
C23_ConfigNeverChanges ==
  pc \notin {"start", "new_failed"} =>
    /\ conf = ResolvedConfig
    /\ new_trace = <<Call("from_conf", conf, TRUE), Call("load", conf, TRUE)>>
    /\ context = [built_from |-> conf]
    /\ last_op /= NoOp =>
          /\ last_op.prev.conf = conf
          /\ \A k \in DOMAIN last_op.calls : last_op.calls[k].conf = conf

\* C23 witness: a Game built from a conf.toml that differs from the config
\* passed to new; a run has returned, a caller has replaced the state, and the
\* factory of replace_state_with has then failed, having been given the
\* config of conf.toml.
C23_Witness ==
  /\ LastOp("replace_state_with")
  /\ ~last_op.ret.ok
  /\ last_op.prev.state \in GivenStates
  /\ Returned
  /\ ~NoUsableConfFile
  /\ conf_file.toml /= default_config
  /\ last_op.calls[1].conf = conf_file.toml
====
